---------------------------- MODULE Spec2Model ----------------------------
(***************************************************************************)
(* Model of src/telegram_bot.py: the photo handler of the invoice bot, the *)
(* normalisation helpers it calls and the rows it appends to the two       *)
(* worksheets.                                                             *)
(*                                                                         *)
(* Representation.                                                         *)
(*  - A Python str is a sequence of atoms.  An atom is a single character  *)
(*    (a digit, ",", ".", "-", "+", "/", " ", "|", a newline, a brace) or  *)
(*    a word: a run of letters that no helper looks inside ("Widget",      *)
(*    "Mar").  Words never spell a float literal such as "inf".            *)
(*  - A JSON value, a Python float and a worksheet cell are records        *)
(*    [k, s, m, e]: k the kind, s the text of a str, and m, e the decimal  *)
(*    m * 10^(-e) of a number, kept normalised (no trailing zero in the    *)
(*    fraction) so that equal numbers are equal records.  Floats are       *)
(*    exact decimals here; binary rounding is not modelled.                *)
(*  - A JSON integer too large for a double has kind "bigint"; float() of  *)
(*    it raises OverflowError.                                             *)
(*  - dict.get of a missing key and of a null value both give None, so a   *)
(*    decoded object is a record whose missing keys hold JNull.            *)
(***************************************************************************)
EXTENDS Integers, Sequences, FiniteSets, TLC

VARIABLES task, log, running

vars == <<task, log, running>>

(***************************************************************************)
(* Bounds of the model.                                                    *)
(***************************************************************************)
NumTasks == 2
MaxItems == 2
MaxLen == 5
MaxText == 5

(***************************************************************************)
(* Values.                                                                 *)
(***************************************************************************)
Val(k, s, m, e) == [k |-> k, s |-> s, m |-> m, e |-> e]

JNull == Val("null", <<>>, 0, 0)
JStr(s) == Val("str", s, 0, 0)
JInt(n) == Val("int", <<>>, n, 0)
JBool(b) == Val("bool", <<>>, IF b THEN 1 ELSE 0, 0)
JBigInt == Val("bigint", <<>>, 0, 0)
JList == Val("list", <<>>, 0, 0)
JDict == Val("dict", <<>>, 0, 0)

\* Python's None, and an exception leaving a helper.
None == Val("none", <<>>, 0, 0)
Raise == Val("raise", <<>>, 0, 0)

RECURSIVE Norm(_, _)
Norm(m, e) ==
    IF e > 0 /\ m % 10 = 0 THEN Norm(m \div 10, e - 1) ELSE Val("float", <<>>, m, e)

Float(m, e) == Norm(m, e)

JFloat(m, e) == Val("jfloat", <<>>, Norm(m, e).m, Norm(m, e).e)

RECURSIVE Pow10(_)
Pow10(n) == IF n = 0 THEN 1 ELSE 10 * Pow10(n - 1)

Max(a, b) == IF a >= b THEN a ELSE b

Mul(a, b) == Norm(a.m * b.m, a.e + b.e)

Add(a, b) ==
    LET e == Max(a.e, b.e)
    IN  Norm(a.m * Pow10(e - a.e) + b.m * Pow10(e - b.e), e)

Sub(a, b) == Add(a, Norm(0 - b.m, b.e))

Zero == Float(0, 0)

(***************************************************************************)
(* Strings.                                                                *)
(***************************************************************************)
Digits == {"0", "1", "2", "3", "4", "5", "6", "7", "8", "9"}

DigitVal(c) ==
    CASE c = "0" -> 0 [] c = "1" -> 1 [] c = "2" -> 2 [] c = "3" -> 3
      [] c = "4" -> 4 [] c = "5" -> 5 [] c = "6" -> 6 [] c = "7" -> 7
      [] c = "8" -> 8 [] c = "9" -> 9

DigitChar(n) ==
    CASE n = 0 -> "0" [] n = 1 -> "1" [] n = 2 -> "2" [] n = 3 -> "3"
      [] n = 4 -> "4" [] n = 5 -> "5" [] n = 6 -> "6" [] n = 7 -> "7"
      [] n = 8 -> "8" [] n = 9 -> "9"

Whitespace == {" ", "\n"}

RECURSIVE LStrip(_)
LStrip(s) ==
    IF s # <<>> /\ Head(s) \in Whitespace THEN LStrip(Tail(s)) ELSE s

RECURSIVE RStrip(_)
RStrip(s) ==
    IF s # <<>> /\ s[Len(s)] \in Whitespace
    THEN RStrip(SubSeq(s, 1, Len(s) - 1))
    ELSE s

\* str.strip()
Strip(s) == RStrip(LStrip(s))

\* str.lower(), on the atoms that have an upper-case letter
LowerAtom(c) ==
    CASE c = "NaN" -> "nan" [] c = "None" -> "none" [] c = "NULL" -> "null"
      [] OTHER -> c

Lower(s) == [i \in 1..Len(s) |-> LowerAtom(s[i])]

\* s.replace(",", "")
RemoveCommas(s) == SelectSeq(s, LAMBDA c : c # ",")

RECURSIVE IntChars(_)
IntChars(n) ==
    IF n < 10 THEN <<DigitChar(n)>> ELSE IntChars(n \div 10) \o <<DigitChar(n % 10)>>

RECURSIVE ZeroPad(_, _)
ZeroPad(s, w) == IF Len(s) >= w THEN s ELSE ZeroPad(<<"0">> \o s, w)

RECURSIVE DigitsValue(_)
DigitsValue(s) ==
    IF s = <<>> THEN 0 ELSE 10 * DigitsValue(SubSeq(s, 1, Len(s) - 1)) + DigitVal(s[Len(s)])

AllDigits(s) == \A i \in 1..Len(s) : s[i] \in Digits


(***************************************************************************)
(* str(x) of a decoded JSON value.                                         *)
(***************************************************************************)
SignChars(m) == IF m < 0 THEN <<"-">> ELSE <<>>

Abs(m) == IF m < 0 THEN 0 - m ELSE m

\* repr of a float: the integer part, ".", the fraction (".0" when there is none)
FloatChars(m, e) ==
    SignChars(m) \o IntChars(Abs(m) \div Pow10(e)) \o <<".">>
        \o (IF e = 0 THEN <<"0">> ELSE ZeroPad(IntChars(Abs(m) % Pow10(e)), e))

\* the decimal digits of an integer beyond the range of a double, abridged
BigIntChars == <<"1", "0", "0", "(398 more zeros)">>

PyStr(x) ==
    CASE x.k = "str" -> x.s
      [] x.k = "int" -> SignChars(x.m) \o IntChars(Abs(x.m))
      [] x.k = "jfloat" -> FloatChars(x.m, x.e)
      [] x.k = "bool" -> IF x.m = 1 THEN <<"True">> ELSE <<"False">>
      [] x.k = "bigint" -> BigIntChars
      [] x.k = "list" -> <<"[", "1", "]">>
      [] x.k = "dict" -> <<"{", "'a'", ":", " ", "1", "}">>
      [] OTHER -> <<"None">>

safe_str(x) == IF x.k # "null" THEN Strip(PyStr(x)) ELSE <<>>

(***************************************************************************)
(* float(s) of a str: surrounding whitespace, an optional sign, digits     *)
(* with at most one "." and at least one digit.  Anything else is a        *)
(* ValueError, given here as None.                                         *)
(***************************************************************************)
Unsigned(s) == IF s # <<>> /\ Head(s) \in {"-", "+"} THEN Tail(s) ELSE s

DotCount(s) == Len(SelectSeq(s, LAMBDA c : c = "."))

DotPos(s) == CHOOSE i \in 1..Len(s) : s[i] = "."

WithoutDot(s) == SelectSeq(s, LAMBDA c : c # ".")

ParseFloat(s) ==
    LET t == Strip(s)
        neg == t # <<>> /\ Head(t) = "-"
        b == Unsigned(t)
        d == WithoutDot(b)
        e == IF DotCount(b) = 1 THEN Len(b) - DotPos(b) ELSE 0
    IN  IF d # <<>> /\ AllDigits(d) /\ DotCount(b) <= 1
        THEN Norm(IF neg THEN 0 - DigitsValue(d) ELSE DigitsValue(d), e)
        ELSE None

\* The variant of to_number that uses the count of digits after a lone
\* separator to decide between a thousands and a decimal separator.
to_number_three_digit_rule(value) ==
    IF value.k = "null" THEN None
    ELSE IF value.k \in {"int", "jfloat", "bool"} THEN Norm(value.m, value.e)
    ELSE IF value.k = "bigint" THEN Raise
    ELSE LET s == Strip(PyStr(value))
             commas == Len(SelectSeq(s, LAMBDA c : c = ","))
             thousands(sep) ==
                 /\ Len(s) >= 4
                 /\ s[Len(s) - 3] = sep
                 /\ AllDigits(SubSeq(s, Len(s) - 2, Len(s)))
         IN  IF s = <<>> \/ Lower(s) \in {<<"null">>, <<"none">>, <<"nan">>} THEN None
             ELSE IF commas > 0 /\ DotCount(s) > 0 THEN ParseFloat(RemoveCommas(s))
             ELSE IF commas = 1
                  THEN IF thousands(",") THEN ParseFloat(RemoveCommas(s))
                       ELSE ParseFloat([i \in 1..Len(s) |-> IF s[i] = "," THEN "." ELSE s[i]])
             ELSE IF DotCount(s) = 1 /\ thousands(".") THEN ParseFloat(WithoutDot(s))
             ELSE ParseFloat(RemoveCommas(s))

to_number(value) ==
    IF value.k = "null" THEN None
    ELSE IF value.k \in {"int", "jfloat", "bool"} THEN Norm(value.m, value.e)
    ELSE IF value.k = "bigint" THEN Raise
    ELSE LET s == Strip(PyStr(value))
         IN  IF s = <<>> \/ Lower(s) \in {<<"null">>, <<"none">>, <<"nan">>} THEN None
             ELSE ParseFloat(RemoveCommas(s))

\* The variant of vat_yes_no that counts a zero amount as VAT charged.
vat_yes_no_zero_is_yes(vat_amount) ==
    LET num == to_number(vat_amount)
    IN  IF num.k = "raise" THEN "raise"
        ELSE IF num.k = "none" THEN "No"
        ELSE IF num.m >= 0 THEN "Yes" ELSE "No"

vat_yes_no(vat_amount) ==
    LET num == to_number(vat_amount)
    IN  IF num.k = "raise" THEN "raise"
        ELSE IF num.k = "none" THEN "No"
        ELSE IF num.m > 0 THEN "Yes" ELSE "No"

(***************************************************************************)
(* Dates.  strptime and fromisoformat read a date string as maximal runs   *)
(* of digits and the atoms between them: every directive of the formats    *)
(* below is delimited by a separator, so a directive matches one whole     *)
(* run.  A token is [t, w, v, a]: a run of w digits of value v, or an atom *)
(* a.                                                                      *)
(***************************************************************************)
NumTok(w, v) == [t |-> "num", w |-> w, v |-> v, a |-> ""]

AtomTok(a) == [t |-> "atom", w |-> 0, v |-> 0, a |-> a]

RECURSIVE DigitRun(_)
DigitRun(s) ==
    IF s # <<>> /\ Head(s) \in Digits THEN 1 + DigitRun(Tail(s)) ELSE 0

RECURSIVE Tokenise(_)
Tokenise(s) ==
    IF s = <<>> THEN <<>>
    ELSE IF Head(s) \in Digits
         THEN LET w == DigitRun(s)
              IN  <<NumTok(w, DigitsValue(SubSeq(s, 1, w)))>>
                      \o Tokenise(SubSeq(s, w + 1, Len(s)))
         ELSE <<AtomTok(Head(s))>> \o Tokenise(Tail(s))

MonthAbbr(a) ==
    CASE a = "Jan" -> 1 [] a = "Feb" -> 2 [] a = "Mar" -> 3 [] a = "Apr" -> 4
      [] a = "May" -> 5 [] a = "Jun" -> 6 [] a = "Jul" -> 7 [] a = "Aug" -> 8
      [] a = "Sep" -> 9 [] a = "Oct" -> 10 [] a = "Nov" -> 11 [] a = "Dec" -> 12
      [] OTHER -> 0

MonthFull(a) ==
    CASE a = "January" -> 1 [] a = "February" -> 2 [] a = "March" -> 3
      [] a = "April" -> 4 [] a = "May" -> 5 [] a = "June" -> 6 [] a = "July" -> 7
      [] a = "August" -> 8 [] a = "September" -> 9 [] a = "October" -> 10
      [] a = "November" -> 11 [] a = "December" -> 12
      [] OTHER -> 0

\* the formats tried by normalize_date_yyyy_mm_dd_slash, in its order
fmts ==
    << <<"%Y", "-", "%m", "-", "%d">>,
       <<"%Y", "/", "%m", "/", "%d">>,
       <<"%d", "-", "%m", "-", "%Y">>,
       <<"%d", "/", "%m", "/", "%Y">>,
       <<"%d", "-", "%m", "-", "%y">>,
       <<"%d", "/", "%m", "/", "%y">>,
       <<"%d", "-", "%b", "-", "%y">>,
       <<"%d", "-", "%b", "-", "%Y">>,
       <<"%d", " ", "%b", " ", "%Y">>,
       <<"%d", " ", "%B", " ", "%Y">> >>

Matches(tok, d) ==
    CASE d = "%Y" -> tok.t = "num" /\ tok.w = 4
      [] d = "%y" -> tok.t = "num" /\ tok.w = 2
      [] d = "%m" -> tok.t = "num" /\ tok.w \in {1, 2} /\ tok.v \in 1..12
      [] d = "%d" -> tok.t = "num" /\ tok.w \in {1, 2} /\ tok.v \in 1..31
      [] d = "%b" -> tok.t = "atom" /\ MonthAbbr(tok.a) # 0
      [] d = "%B" -> tok.t = "atom" /\ MonthFull(tok.a) # 0
      [] OTHER -> tok.t = "atom" /\ tok.a = d

IsLeap(y) == (y % 4 = 0 /\ y % 100 # 0) \/ y % 400 = 0

DaysIn(m, y) ==
    IF m = 2 THEN (IF IsLeap(y) THEN 29 ELSE 28)
    ELSE IF m \in {4, 6, 9, 11} THEN 30 ELSE 31

NoDate == [y |-> 0, m |-> 0, d |-> 0]

ValidDate(dt) == dt.y >= 1 /\ dt.m \in 1..12 /\ dt.d >= 1 /\ dt.d <= DaysIn(dt.m, dt.y)

\* the value a matched directive gives to its field (%y pivots at 69)
Field(toks, f, ds) ==
    LET hit == {i \in 1..Len(f) : f[i] \in ds}
        i == CHOOSE j \in hit : TRUE
    IN  IF hit = {} THEN 0
        ELSE CASE f[i] = "%y" -> (IF toks[i].v < 69 THEN 2000 + toks[i].v ELSE 1900 + toks[i].v)
               [] f[i] = "%b" -> MonthAbbr(toks[i].a)
               [] f[i] = "%B" -> MonthFull(toks[i].a)
               [] OTHER -> toks[i].v

\* datetime.strptime(s, f): the date, or NoDate for a ValueError
strptime(s, f) ==
    LET toks == Tokenise(s)
        dt == [y |-> Field(toks, f, {"%Y", "%y"}),
               m |-> Field(toks, f, {"%m", "%b", "%B"}),
               d |-> Field(toks, f, {"%d"})]
    IN  IF /\ Len(toks) = Len(f)
           /\ \A i \in 1..Len(f) : Matches(toks[i], f[i])
           /\ ValidDate(dt)
        THEN dt
        ELSE NoDate

\* atoms standing for the time part of an ISO-8601 timestamp
IsoTimes == {"T10:00:00Z", "T10:00:00"}

\* datetime.fromisoformat(s.replace("Z", "+00:00")): YYYY-MM-DD with
\* two-digit month and day, and an optional time part
fromisoformat(s) ==
    LET toks == Tokenise(s)
        n == Len(toks)
        dt == [y |-> toks[1].v, m |-> toks[3].v, d |-> toks[5].v]
    IN  IF /\ n \in {5, 6}
           /\ toks[1].t = "num" /\ toks[1].w = 4
           /\ toks[2].t = "atom" /\ toks[2].a = "-"
           /\ toks[3].t = "num" /\ toks[3].w = 2
           /\ toks[4].t = "atom" /\ toks[4].a = "-"
           /\ toks[5].t = "num" /\ toks[5].w = 2
           /\ (n = 6 => toks[6].t = "atom" /\ toks[6].a \in IsoTimes)
           /\ ValidDate(dt)
        THEN dt
        ELSE NoDate

\* dt.strftime("%Y/%m/%d"); the C library's %Y does not pad a year below 1000
strftime(dt) ==
    IntChars(dt.y) \o <<"/">> \o ZeroPad(IntChars(dt.m), 2) \o <<"/">>
        \o ZeroPad(IntChars(dt.d), 2)

\* datetime.now(timezone.utc), the day the handler runs
Today == [y |-> 2026, m |-> 11, d |-> 3]

RECURSIVE FirstFormat(_, _)
FirstFormat(s, i) ==
    IF i > Len(fmts) THEN NoDate
    ELSE IF strptime(s, fmts[i]) # NoDate THEN strptime(s, fmts[i])
    ELSE FirstFormat(s, i + 1)

normalize_date_yyyy_mm_dd_slash(raw) ==
    LET s == IF raw.k # "null" THEN Strip(PyStr(raw)) ELSE <<>>
    IN  IF s = <<>> THEN strftime(Today)
        ELSE IF FirstFormat(s, 1) # NoDate THEN strftime(FirstFormat(s, 1))
        ELSE IF fromisoformat(s) # NoDate THEN strftime(fromisoformat(s))
        ELSE strftime(Today)

(***************************************************************************)
(* The oracle's text.  Its atoms: "prose" (text without braces), "{", "}", *)
(* ",", "member" (a "key": value pair with a scalar or list value) and     *)
(* "key:" (a key and colon, to be followed by a nested object).  What the  *)
(* members hold is carried beside the text, as the object they decode to.  *)
(***************************************************************************)
\* str.find / str.rfind, 1-based, 0 for -1
Find(s, c) ==
    IF \E i \in 1..Len(s) : s[i] = c
    THEN CHOOSE i \in 1..Len(s) : s[i] = c /\ \A j \in 1..(i - 1) : s[j] # c
    ELSE 0

RFind(s, c) ==
    IF \E i \in 1..Len(s) : s[i] = c
    THEN CHOOSE i \in 1..Len(s) : s[i] = c /\ \A j \in (i + 1)..Len(s) : s[j] # c
    ELSE 0

NoSpan == [ok |-> FALSE, span |-> <<>>]

clean_json_only(text) ==
    LET s == Strip(text)
        start == Find(s, "{")
        end == RFind(s, "}")
    IN  IF start = 0 \/ end = 0 \/ end <= start THEN NoSpan
        ELSE [ok |-> TRUE, span |-> SubSeq(s, start, end)]

\* json.loads of a span: the position after the object that starts at i,
\* or 0 where the text is no JSON object
RECURSIVE ParseObj(_, _)
RECURSIVE ParseMember(_, _)
RECURSIVE ParseRest(_, _)
ParseMember(s, i) ==
    IF i > Len(s) THEN 0
    ELSE IF s[i] = "member" THEN i + 1
    ELSE IF s[i] = "key:" THEN ParseObj(s, i + 1)
    ELSE 0

ParseRest(s, i) ==
    IF i > Len(s) THEN 0
    ELSE IF s[i] = "}" THEN i + 1
    ELSE IF s[i] = "," /\ ParseMember(s, i + 1) # 0 THEN ParseRest(s, ParseMember(s, i + 1))
    ELSE 0

ParseObj(s, i) ==
    IF i > Len(s) \/ s[i] # "{" THEN 0
    ELSE IF i + 1 <= Len(s) /\ s[i + 1] = "}" THEN i + 2
    ELSE IF ParseMember(s, i + 1) # 0 THEN ParseRest(s, ParseMember(s, i + 1))
    ELSE 0

json_loads_ok(span) == ParseObj(span, 1) = Len(span) + 1

(***************************************************************************)
(* Decoded objects.  An entry of "items" is [k, name, qty, rate, discount, *)
(* vat, line_total]: k = "dict" for an object, another kind for anything   *)
(* else.  "items" itself is [k, l]: a list l, or a value of another kind.  *)
(***************************************************************************)
Entry(name, qty, rate, discount, vat, line_total) ==
    [k |-> "dict", name |-> name, qty |-> qty, rate |-> rate,
     discount |-> discount, vat |-> vat, line_total |-> line_total]

NotADict(kind) ==
    [k |-> kind, name |-> JNull, qty |-> JNull, rate |-> JNull,
     discount |-> JNull, vat |-> JNull, line_total |-> JNull]

Data(date, supplier, net_total, vat_amount, sub_category, items) ==
    [date |-> date, supplier |-> supplier, net_total |-> net_total,
     vat_amount |-> vat_amount, sub_category |-> sub_category, items |-> items]

ItemList(l) == [k |-> "list", l |-> l]

ItemsOfKind(kind) == [k |-> kind, l |-> <<>>]

\* the object "{}" decodes to
EmptyData == Data(JNull, JNull, JNull, JNull, JNull, ItemsOfKind("null"))

\* json.loads(span), for a span that is an object: without a member it is {}
Decode(span, data) == IF span = <<"{", "}">> THEN EmptyData ELSE data

(***************************************************************************)
(* extract_with_ai, from the oracle's answer o = [text, data] on.          *)
(***************************************************************************)
allowed ==
    { <<"Gas">>, <<"Grocery">>, <<"Restaurant">>, <<"Office", " ", "Supplies">>,
      <<"Utilities">>, <<"Transport">>, <<"Maintenance">>, <<"Other">> }

RECURSIVE Join(_, _)
Join(parts, sep) ==
    IF parts = <<>> THEN <<>>
    ELSE IF Len(parts) = 1 THEN parts[1]
    ELSE parts[1] \o sep \o Join(Tail(parts), sep)

Labelled(label, s) == IF s = <<>> THEN <<>> ELSE << <<label, " ">> \o s >>

\* the parts of one line of the items text (lines 224-245)
Parts(it) ==
    (IF safe_str(it.name) = <<>> THEN <<>> ELSE <<safe_str(it.name)>>)
        \o Labelled("qty", safe_str(it.qty))
        \o Labelled("rate", safe_str(it.rate))
        \o Labelled("disc", safe_str(it.discount))
        \o Labelled("vat", safe_str(it.vat))
        \o Labelled("line", safe_str(it.line_total))

\* whether the Sheet1 loop gives the entry a line (lines 222-231)
InSummary(it) == it.k = "dict" /\ Parts(it) # <<>>

RECURSIVE SummaryLines(_)
SummaryLines(items) ==
    IF items = <<>> THEN <<>>
    ELSE (IF InSummary(Head(items)) THEN <<Join(Parts(Head(items)), <<" ", "|", " ">>)>> ELSE <<>>)
             \o SummaryLines(Tail(items))

ItemsText(items) ==
    LET items_text == Strip(Join(SummaryLines(items), <<"\n">>))
    IN  IF items_text = <<>> THEN <<"UNREADABLE_ITEMS">> ELSE items_text

NoResult ==
    [ok |-> FALSE, date |-> <<>>, supplier |-> <<>>, net_total |-> <<>>,
     vat_flag |-> "", invoice_vat_no |-> FALSE, sub_category |-> <<>>,
     items |-> <<>>, items_text |-> <<>>]

SubCategory(v) ==
    IF safe_str(v) # <<>> /\ safe_str(v) \in allowed THEN safe_str(v) ELSE <<"Other">>

\* lines 203-260, for the decoded object
BuildResult(data) ==
    IF vat_yes_no(data.vat_amount) = "raise" THEN NoResult
    ELSE [ok |-> TRUE,
          date |-> normalize_date_yyyy_mm_dd_slash(data.date),
          supplier |-> safe_str(data.supplier),
          net_total |-> safe_str(data.net_total),
          vat_flag |-> vat_yes_no(data.vat_amount),
          invoice_vat_no |-> (vat_yes_no(data.vat_amount) = "No"),
          sub_category |-> SubCategory(data.sub_category),
          items |-> IF data.items.k = "list" THEN data.items.l ELSE <<>>,
          items_text |-> ItemsText(IF data.items.k = "list" THEN data.items.l ELSE <<>>)]

\* The variant of extract_with_ai that takes text it cannot decode for an
\* empty object instead of raising.
extract_with_ai_empty_on_failure(o) ==
    LET cleaned == clean_json_only(o.text)
    IN  IF ~cleaned.ok THEN BuildResult(EmptyData)
        ELSE IF ~json_loads_ok(cleaned.span) THEN BuildResult(EmptyData)
        ELSE BuildResult(Decode(cleaned.span, o.data))

\* the result, or NoResult (ok = FALSE) when an exception leaves the function
extract_with_ai(o) ==
    LET cleaned == clean_json_only(o.text)
    IN  IF ~cleaned.ok THEN NoResult
        ELSE IF ~json_loads_ok(cleaned.span) THEN NoResult
        ELSE BuildResult(Decode(cleaned.span, o.data))

(***************************************************************************)
(* handle_photo.  One task per photo message.  task[t] holds the photo's   *)
(* reading by the oracle (o), the sender (user) and the handler's locals.  *)
(* log is the sequence of the handler's outward calls, in call order:      *)
(* append_row on the worksheet "invoices" (ev = "ws1") or "Detailed_Items" *)
(* (ev = "ws2") with its row, and reply_text ("reply_ok", "reply_err").    *)
(* inv is the task that made the call and idx the index of the item a      *)
(* detail row was made from (0 for the other rows); both are bookkeeping.  *)
(* running is the task that holds the event loop (0: none): a task keeps   *)
(* the loop until it awaits.                                               *)
(***************************************************************************)
PaidBy(user) ==
    IF user.full_name # <<>> THEN user.full_name
    ELSE IF user.username # <<>> THEN user.username
    ELSE <<"Unknown">>

Event(ev, inv, idx, row) == [ev |-> ev, inv |-> inv, idx |-> idx, row |-> row]

\* x or 0.0
OrZero(x) == IF x.k = "none" \/ x.m = 0 THEN Zero ELSE x

\* the row of Sheet1 (lines 290-301)
HeaderRow(result, paid_by) ==
    << JStr(result.date), JStr(result.supplier), JStr(result.net_total),
       JStr(<<result.vat_flag>>), JStr(result.sub_category),
       JStr(result.items_text), JStr(paid_by) >>

\* whether a to_number call of lines 317-325 raises for the item
ItemRaises(result, item) ==
    \/ to_number(item.qty).k = "raise"
    \/ to_number(item.rate).k = "raise"
    \/ to_number(item.discount).k = "raise"
    \/ ~result.invoice_vat_no /\ to_number(item.vat).k = "raise"
    \/ to_number(item.line_total).k = "raise"

\* The variant of the VAT fix that keeps the item's VAT whatever the header.
VatOfItemIgnoringHeader(result, item) == OrZero(to_number(item.vat))

\* line 322
VatOfItem(result, item) ==
    IF result.invoice_vat_no THEN Zero ELSE OrZero(to_number(item.vat))

\* The variant of the total that takes the AI's line_total only when it is
\* not zero ("to_number(...) or computed").
TotalPriceFalsy(result, item) ==
    LET qty == OrZero(to_number(item.qty))
        rate == OrZero(to_number(item.rate))
        discount == OrZero(to_number(item.discount))
        lt == to_number(item.line_total)
    IN  IF lt.k # "none" /\ lt.m # 0 THEN lt
        ELSE Add(Sub(Mul(qty, rate), discount), VatOfItem(result, item))

\* lines 324-329
TotalPrice(result, item) ==
    LET qty == OrZero(to_number(item.qty))
        rate == OrZero(to_number(item.rate))
        discount == OrZero(to_number(item.discount))
        lt == to_number(item.line_total)
    IN  IF lt.k # "none" THEN lt
        ELSE Add(Sub(Mul(qty, rate), discount), VatOfItem(result, item))

\* the row of Sheet2 for an item (lines 331-344)
DetailRow(result, item, paid_by) ==
    << JStr(result.date), JStr(result.supplier), JStr(safe_str(item.name)),
       OrZero(to_number(item.qty)), OrZero(to_number(item.rate)),
       OrZero(to_number(item.discount)), VatOfItem(result, item),
       TotalPrice(result, item), JStr(paid_by) >>

\* the row of lines 348-361 and 363-376
SentinelRow(result, paid_by) ==
    << JStr(result.date), JStr(result.supplier), JStr(<<"UNREADABLE_ITEMS">>),
       JStr(<<>>), JStr(<<>>), JStr(<<>>), JInt(0), JStr(<<>>), JStr(paid_by) >>

\* lines 310-315: the entries the Sheet2 loop writes a row for
Retained(item) == item.k = "dict" /\ safe_str(item.name) # <<>>

\* The variant of the handler in which append_row is awaited too.
AwaitsWithAppends ==
    {"start", "get_file", "download", "reply_ok", "reply_err", "append_header", "items"}

\* the steps that end at an await (lines 271, 279, 280, 378, 382)
Awaits == {"start", "get_file", "download", "reply_ok", "reply_err"}

NewTask(o, user) ==
    [pc |-> "start", o |-> o, user |-> user, result |-> NoResult,
     i |-> 0, wrote_any |-> FALSE]

\* the loop is free for t, and after the step it is free again iff t awaits
Scheduled(t, pc) ==
    /\ task[t].pc = pc
    /\ running \in {0, t}
    /\ running' = IF pc \in Awaits THEN 0 ELSE t

Goto(t, pc) == task' = [task EXCEPT ![t].pc = pc]

\* line 271: await msg.chat.send_action
SendTyping(t) ==
    /\ Scheduled(t, "start")
    /\ Goto(t, "get_file")
    /\ UNCHANGED log

\* lines 274-279: paid_by, await context.bot.get_file
GetFile(t) ==
    /\ Scheduled(t, "get_file")
    /\ Goto(t, "download")
    /\ UNCHANGED log

\* line 280: await file.download_as_bytearray
Download(t) ==
    /\ Scheduled(t, "download")
    /\ Goto(t, "extract")
    /\ UNCHANGED log

\* line 282: result = extract_with_ai(...); an exception goes to line 380
Extract(t) ==
    /\ Scheduled(t, "extract")
    /\ task' = [task EXCEPT
                  ![t].result = extract_with_ai(task[t].o),
                  ![t].pc = IF extract_with_ai(task[t].o).ok
                            THEN "append_header" ELSE "reply_err"]
    /\ UNCHANGED log

\* lines 284-307: ws1.append_row, then "if items"
AppendHeader(t) ==
    /\ Scheduled(t, "append_header")
    /\ log' = Append(log, Event("ws1", t, 0, HeaderRow(task[t].result, PaidBy(task[t].user))))
    /\ task' = [task EXCEPT
                  ![t].i = 1,
                  ![t].wrote_any = FALSE,
                  ![t].pc = IF task[t].result.items # <<>> THEN "items" ELSE "sentinel"]

\* where the loop of line 309 goes after item i
AfterItem(t, wrote) ==
    IF task[t].i < Len(task[t].result.items) THEN "items"
    ELSE IF wrote THEN "reply_ok" ELSE "sentinel"

\* lines 309-345, for the item at i: skipped, or a to_number call raises, or
\* its row is appended
AppendItem(t) ==
    LET item == task[t].result.items[task[t].i]
    IN  /\ Scheduled(t, "items")
        /\ IF ~Retained(item)
           THEN /\ task' = [task EXCEPT ![t].i = @ + 1,
                                        ![t].pc = AfterItem(t, task[t].wrote_any)]
                /\ UNCHANGED log
           ELSE IF ItemRaises(task[t].result, item)
           THEN /\ Goto(t, "reply_err")
                /\ UNCHANGED log
           ELSE /\ log' = Append(log, Event("ws2", t, task[t].i,
                                     DetailRow(task[t].result, item, PaidBy(task[t].user))))
                /\ task' = [task EXCEPT ![t].i = @ + 1,
                                        ![t].wrote_any = TRUE,
                                        ![t].pc = AfterItem(t, TRUE)]

\* lines 347-361 and 362-376
AppendSentinel(t) ==
    /\ Scheduled(t, "sentinel")
    /\ log' = Append(log, Event("ws2", t, 0, SentinelRow(task[t].result, PaidBy(task[t].user))))
    /\ Goto(t, "reply_ok")

\* line 378
ReplyOk(t) ==
    /\ Scheduled(t, "reply_ok")
    /\ log' = Append(log, Event("reply_ok", t, 0, <<>>))
    /\ Goto(t, "done")

\* lines 380-382
ReplyErr(t) ==
    /\ Scheduled(t, "reply_err")
    /\ log' = Append(log, Event("reply_err", t, 0, <<>>))
    /\ Goto(t, "done")

\* handle_photo, for the photo message of any task
Next ==
    \E t \in DOMAIN task :
        \/ SendTyping(t)
        \/ GetFile(t)
        \/ Download(t)
        \/ Extract(t)
        \/ AppendHeader(t)
        \/ AppendItem(t)
        \/ AppendSentinel(t)
        \/ ReplyOk(t)
        \/ ReplyErr(t)

(***************************************************************************)
(* The inputs: what the oracle answers for a photo, and who sent it.       *)
(***************************************************************************)
Out(text, data) == [text |-> text, data |-> data]

\* "Sure! Here is the JSON: {...} Thanks."
GoodText == <<"prose", "{", "member", "}", "prose">>

Widget ==
    Entry(JStr(<<"Widget">>), JStr(<<"2">>), JStr(<<"5", ".", "5">>), JStr(<<>>),
          JStr(<<"1">>), JNull)

Gasket ==
    Entry(JStr(<<"Gasket">>), JStr(<<"3">>), JStr(<<"1", ".", "2", "5">>), JStr(<<"0", ".", "5">>),
          JStr(<<"0", ".", "2">>), JStr(<<>>))

\* a line_total that reads 0
Bolt ==
    Entry(JStr(<<"Bolt">>), JStr(<<"2">>), JStr(<<"5", ".", "5">>), JStr(<<"1">>),
          JStr(<<"1">>), JStr(<<"0">>))

\* a line_total as printed on the invoice, per-line VAT included
Nut ==
    Entry(JStr(<<" ", "Nut", " ">>), JStr(<<"2">>), JStr(<<"5", ".", "5">>), JNull,
          JStr(<<"1">>), JStr(<<"1", "2">>))

\* no name, but a quantity
Nameless == Entry(JStr(<<" ">>), JStr(<<"2">>), JNull, JNull, JNull, JNull)

Blank == Entry(JNull, JStr(<<>>), JNull, JStr(<<" ">>), JNull, JNull)

\* values of the wrong type and unparseable text
Noise ==
    Entry(JInt(7), JStr(<<"abc">>), JInt(3), JFloat(5, 1), JStr(<<"1", ",", "5">>),
          JStr(<<"x">>))

\* a quantity beyond the range of a double
Pipe == Entry(JStr(<<"Pipe">>), JBigInt, JStr(<<"1">>), JNull, JNull, JNull)

\* a per-line VAT beyond the range of a double
Cap == Entry(JStr(<<"Cap">>), JStr(<<"1">>), JStr(<<"1">>), JNull, JBigInt, JNull)

Entries == {Widget, Gasket, Bolt, Nut, Nameless, Blank, Noise, Pipe, Cap, NotADict("str")}

\* the lists of at most n entries
RECURSIVE ListsUpTo(_, _)
ListsUpTo(S, n) ==
    IF n = 0 THEN {<<>>}
    ELSE ListsUpTo(S, n - 1)
             \cup {Append(l, x) : l \in {m \in ListsUpTo(S, n - 1) : Len(m) = n - 1}, x \in S}

Default ==
    Data(JStr(<<"2", "0", "2", "4", "-", "0", "3", "-", "0", "1">>), JStr(<<"Acme">>),
         JStr(<<"1", "2", "0">>), JStr(<<"5">>), JStr(<<"Gas">>), ItemList(<<Widget>>))

\* values of "date"
Dates ==
    { JStr(<<"2", "0", "2", "4", "-", "0", "3", "-", "0", "1">>),
      JStr(<<"2", "0", "2", "4", "/", "0", "3", "/", "0", "1">>),
      JStr(<<"0", "1", "-", "0", "3", "-", "2", "0", "2", "4">>),
      JStr(<<"0", "1", "/", "0", "3", "/", "2", "0", "2", "4">>),
      JStr(<<"0", "1", "-", "0", "3", "-", "2", "4">>),
      JStr(<<"0", "1", "/", "0", "3", "/", "2", "4">>),
      JStr(<<"3", "1", "-", "0", "2", "-", "2", "0", "2", "4">>),
      JStr(<<"2", "9", "-", "0", "2", "-", "2", "0", "2", "4">>),
      JStr(<<"0", "9", "9", "9", "-", "1", "2", "-", "3", "1">>),
      JStr(<<"1", "-", "3", "-", "2", "0", "2", "4">>),
      JStr(<<"0", "1", "-", "0", "3", "-", "6", "9">>),
      JStr(<<"0", "1", "-", "Mar", "-", "2", "4">>),
      JStr(<<"0", "1", "-", "Mar", "-", "2", "0", "2", "4">>),
      JStr(<<"1", " ", "Mar", " ", "2", "0", "2", "4">>),
      JStr(<<"1", " ", "March", " ", "2", "0", "2", "4">>),
      JStr(<<"2", "0", "2", "4", "-", "0", "3", "-", "0", "1", "T10:00:00Z">>),
      JStr(<<" ", "0", "1", "-", "0", "3", "-", "2", "4", " ">>),
      JStr(<<"yesterday">>),
      JStr(<<>>),
      JStr(<<" ">>),
      JNull,
      JInt(5),
      JList }

\* values of "vat_amount"
VatAmounts ==
    { JStr(<<"0">>),
      JStr(<<"0", ".", "0", "0", "0">>),
      JStr(<<"-", "5">>),
      JStr(<<"5">>),
      JStr(<<"1", ",", "0", "5", "0">>),
      JStr(<<" ", "5", " ">>),
      JStr(<<"0", ".", "5">>),
      JStr(<<>>),
      JStr(<<"null">>),
      JStr(<<"NaN">>),
      JStr(<<"None">>),
      JStr(<<"abc">>),
      JStr(<<"5", "abc">>),
      JNull,
      JInt(5),
      JInt(0),
      JInt(0 - 1),
      JBool(TRUE),
      JBool(FALSE),
      JFloat(25, 1),
      JFloat(0, 0),
      JList,
      JDict,
      JBigInt }

\* values of "supplier", "net_total" and "sub_category"
Suppliers == {JStr(<<" ", "Acme", " ">>), JNull, JInt(7), JStr(<<>>)}

NetTotals ==
    {JStr(<<"1", "2", "0">>), JInt(120), JFloat(1205, 1), JNull, JStr(<<"1", ",", "0", "5", "0">>)}

SubCategories ==
    {JStr(<<"Gas">>), JStr(<<"Office", " ", "Supplies">>), JStr(<<" ", "Gas", " ">>),
     JStr(<<"gas">>), JStr(<<"Fuel">>), JStr(<<>>), JNull, JInt(7)}

\* values of "items" that are no list
NonLists == {ItemsOfKind("null"), ItemsOfKind("str"), ItemsOfKind("dict"), ItemsOfKind("int")}

\* Default with one header field changed
Headers ==
    {[Default EXCEPT !.date = v] : v \in Dates}
        \cup {[Default EXCEPT !.vat_amount = v] : v \in VatAmounts}
        \cup {[Default EXCEPT !.supplier = v] : v \in Suppliers}
        \cup {[Default EXCEPT !.net_total = v] : v \in NetTotals}
        \cup {[Default EXCEPT !.sub_category = v] : v \in SubCategories}

Sender == [full_name |-> <<"Sara", " ", "K">>, username |-> <<"sarak">>]

Users ==
    {Sender, [full_name |-> <<>>, username |-> <<"sarak">>],
     [full_name |-> <<>>, username |-> <<>>]}

NoJson == Out(<<"prose">>, EmptyData)

\* header fields against short lists, and the lists of entries against the
\* header VAT present, absent and zero
RowsPool ==
    {Out(GoodText, [h EXCEPT !.items = its]) :
         h \in Headers, its \in {ItemList(<<>>), ItemList(<<Widget>>), ItemList(<<Nut, Noise>>)}}
        \cup {Out(GoodText, [Default EXCEPT !.items = its]) : its \in NonLists}
        \cup {Out(GoodText, [Default EXCEPT !.vat_amount = v, !.items = ItemList(l)]) :
                  v \in {JStr(<<"5">>), JNull, JStr(<<"0", ".", "0", "0", "0">>)},
                  l \in ListsUpTo(Entries, MaxItems)}
        \cup {Out(<<"{", "}">>, Default), NoJson}

\* the oracle's texts
TextAtoms == {"prose", "{", "}", "member", "key:"}

TextPool ==
    {Out(text, d) :
         text \in ListsUpTo(TextAtoms, MaxText) \cup {<<"{", "member", ",", "member", "}">>,
                                                    <<"{", "member", ",", "}">>,
                                                    <<" ", "{", "member", "}", "\n">>},
         d \in {Default, [Default EXCEPT !.items = ItemList(<<>>)]}}

\* numeric strings, as the quantity of an item and as the header VAT amount
NumAtoms == {"0", "1", "5", ",", "."}

NumData(s) ==
    [Default EXCEPT !.vat_amount = JStr(s),
                    !.items = ItemList(<<Entry(JStr(<<"Widget">>), JStr(s), JStr(<<"1">>),
                                               JNull, JNull, JNull)>>)]

NumPool ==
    {Out(GoodText, NumData(s)) : s \in ListsUpTo(NumAtoms, MaxLen)}
        \cup {Out(GoodText, [Default EXCEPT !.items = ItemList(<<>>)]), NoJson}

\* concurrent photos
MainPool ==
    {Out(GoodText, [Default EXCEPT !.items = ItemList(l)]) :
         l \in {<<Widget, Gasket>>, <<>>, <<Widget, Pipe>>, <<Nameless>>}}
        \cup {NoJson}

InitWith(n, pool, users) ==
    /\ task \in [1..n -> {NewTask(o, u) : o \in pool, u \in users}]
    /\ log = <<>>
    /\ running = 0

Init == InitWith(NumTasks, MainPool, {Sender})

InitRows == InitWith(1, RowsPool, Users)

InitText == InitWith(1, TextPool, {Sender})

InitNum == InitWith(1, NumPool, {Sender})

\* photos handled as tasks of one event loop
Spec == Init /\ [][Next]_vars

\* one photo, over the decoded objects
SpecRows == InitRows /\ [][Next]_vars

\* one photo, over the oracle's texts
SpecText == InitText /\ [][Next]_vars

\* one photo, over the numeric strings
SpecNum == InitNum /\ [][Next]_vars

(***************************************************************************)
(* Views of the state used by the properties.                              *)
(***************************************************************************)
Rows(ws) == SelectSeq(log, LAMBDA e : e.ev = ws)

RowsOf(t, ws) == SelectSeq(log, LAMBDA e : e.ev = ws /\ e.inv = t)

Appends == SelectSeq(log, LAMBDA e : e.ev \in {"ws1", "ws2"})

Finished(t) == task[t].pc = "done"

Replied(t, ev) == \E i \in 1..Len(log) : log[i].ev = ev /\ log[i].inv = t

\* the text has a "{" with a "}" after it
HasSpan(text) == \E i, j \in 1..Len(text) : i < j /\ text[i] = "{" /\ text[j] = "}"

\* the text from its first "{" to its last "}"
SpanOf(text) ==
    LET i == CHOOSE a \in 1..Len(text) : text[a] = "{" /\ \A b \in 1..(a - 1) : text[b] # "{"
        j == CHOOSE a \in 1..Len(text) : text[a] = "}" /\ \A b \in (a + 1)..Len(text) : text[b] # "}"
    IN  SubSeq(text, i, j)

StructuralFailure(t) ==
    ~HasSpan(task[t].o.text) \/ ~json_loads_ok(SpanOf(task[t].o.text))

\* the object the oracle's text decodes to, when it decodes
Decoded(t) == IF SpanOf(task[t].o.text) = <<"{", "}">> THEN EmptyData ELSE task[t].o.data

\* the entries of "items" (none when it is missing or no list)
InputItems(t) == IF Decoded(t).items.k = "list" THEN Decoded(t).items.l ELSE <<>>

\* a key-value record whose name is non-empty after trimming
HasName(it) == it.k = "dict" /\ it.name.k # "null" /\ Strip(PyStr(it.name)) # <<>>

\* the indices of the entries with a name, in input order
NamedIndices(items) ==
    SelectSeq([i \in 1..Len(items) |-> i], LAMBDA i : HasName(items[i]))

IsZeroCell(c) == c.k \in {"float", "int"} /\ c.m = 0

IsSentinel(e) == e.ev = "ws2" /\ e.row[3] = JStr(<<"UNREADABLE_ITEMS">>)

(***************************************************************************)
(* C1.  A structural failure (the oracle's text has no "{" followed by a   *)
(* "}", or the text from the first "{" to the last "}" is no JSON object)  *)
(* appends no row for the photo to either worksheet, the success reply is  *)
(* never sent for it, and the handler ends with the error reply.           *)
(***************************************************************************)
C1_StructuralFailureAborts ==
    \A t \in DOMAIN task :
        StructuralFailure(t) =>
            /\ RowsOf(t, "ws1") = <<>>
            /\ RowsOf(t, "ws2") = <<>>
            /\ ~Replied(t, "reply_ok")
            /\ Finished(t) => Replied(t, "reply_err")

\* a photo whose text has braces in order around something that is no JSON
\* object, handled to its end with the error reply
C1_Witness ==
    \E t \in DOMAIN task :
        /\ Finished(t)
        /\ HasSpan(task[t].o.text)
        /\ ~json_loads_ok(SpanOf(task[t].o.text))
        /\ Replied(t, "reply_err")
        /\ log = <<Event("reply_err", t, 0, <<>>)>>

(***************************************************************************)
(* C2.  When extract_with_ai has returned a record for a photo, then once  *)
(* handle_photo has finished the header worksheet holds exactly one row of *)
(* the invoice and the detail worksheet at least one.                      *)
(***************************************************************************)
C2_HeaderAndDetailRow ==
    \A t \in DOMAIN task :
        Finished(t) /\ task[t].result.ok =>
            /\ Len(RowsOf(t, "ws1")) = 1
            /\ Len(RowsOf(t, "ws2")) >= 1

(***************************************************************************)
(* C3.  Once handle_photo has finished for a photo whose record was built, *)
(* the detail rows of the invoice are one row per entry of "items" that is *)
(* a key-value record with a non-empty trimmed name, in input order and    *)
(* with that name; or, when there is no such entry, the single row named   *)
(* UNREADABLE_ITEMS.                                                       *)
(***************************************************************************)
C3_DetailRowsPerRetainedEntry ==
    \A t \in DOMAIN task :
        Finished(t) /\ task[t].result.ok =>
            LET rows == RowsOf(t, "ws2")
                named == NamedIndices(InputItems(t))
            IN  IF named = <<>>
                THEN Len(rows) = 1 /\ IsSentinel(rows[1])
                ELSE /\ Len(rows) = Len(named)
                     /\ \A n \in 1..Len(named) :
                            /\ rows[n].idx = named[n]
                            /\ rows[n].row[3] = JStr(Strip(PyStr(InputItems(t)[named[n]].name)))

(***************************************************************************)
(* C4, as claimed.  When the header row of an invoice carries the VAT flag *)
(* "No", every detail row of the invoice has vat 0 and a line_total of     *)
(* qty * rate - discount, whatever vat and line_total its item carries.    *)
(***************************************************************************)
C4_Original_TotalExcludesVat ==
    \A t \in DOMAIN task :
        (\E h \in 1..Len(log) : log[h].ev = "ws1" /\ log[h].inv = t /\ log[h].row[4] = JStr(<<"No">>)) =>
            \A n \in 1..Len(RowsOf(t, "ws2")) :
                LET r == RowsOf(t, "ws2")[n].row
                IN  /\ IsZeroCell(r[7])
                    /\ ~IsSentinel(RowsOf(t, "ws2")[n]) => r[8] = Sub(Mul(r[4], r[5]), r[6])

(***************************************************************************)
(* C4, amended.  When the header row of an invoice carries the VAT flag    *)
(* "No", every detail row of the invoice has vat 0; its line_total is the  *)
(* item's own line_total when that parses to a number, and otherwise       *)
(* qty * rate - discount, with no per-line VAT added.                      *)
(***************************************************************************)
C4_HeaderVatOverride ==
    \A t \in DOMAIN task :
        (\E h \in 1..Len(log) : log[h].ev = "ws1" /\ log[h].inv = t /\ log[h].row[4] = JStr(<<"No">>)) =>
            \A n \in 1..Len(RowsOf(t, "ws2")) :
                LET e == RowsOf(t, "ws2")[n]
                    r == e.row
                    lt == to_number(InputItems(t)[e.idx].line_total)
                IN  /\ IsZeroCell(r[7])
                    /\ ~IsSentinel(e) =>
                           r[8] = IF lt.k = "float" THEN lt ELSE Sub(Mul(r[4], r[5]), r[6])

\* an invoice without header VAT, finished, with a detail row made from an
\* item that carries a per-line VAT and no line_total
C4_Witness ==
    \E t \in DOMAIN task :
        /\ Finished(t)
        /\ Replied(t, "reply_ok")
        /\ \E h \in 1..Len(log) : log[h].ev = "ws1" /\ log[h].row[4] = JStr(<<"No">>)
        /\ \E n \in 1..Len(log) :
               /\ log[n].ev = "ws2" /\ log[n].idx > 0
               /\ InputItems(t)[log[n].idx].vat = JStr(<<"1">>)
               /\ InputItems(t)[log[n].idx].line_total = JNull
               /\ log[n].row[7] = Zero
               /\ log[n].row[8] = Float(11, 0)

(***************************************************************************)
(* C5.  In every detail row made from an item, line_total is the item's    *)
(* own line_total when that parses to a number (a parsed 0 included), and  *)
(* otherwise (qty * rate) - discount + vat over the qty, rate, discount    *)
(* and vat written in the same row; qty, rate and discount are 0 where the *)
(* item's value is missing or unparseable.                                 *)
(***************************************************************************)
C5_LineTotal ==
    \A n \in 1..Len(log) :
        log[n].ev = "ws2" /\ log[n].idx > 0 =>
            LET r == log[n].row
                item == InputItems(log[n].inv)[log[n].idx]
                lt == to_number(item.line_total)
            IN  /\ r[8] = IF lt.k = "float" THEN lt
                          ELSE Add(Sub(Mul(r[4], r[5]), r[6]), r[7])
                /\ to_number(item.qty).k = "none" => r[4] = Zero
                /\ to_number(item.rate).k = "none" => r[5] = Zero
                /\ to_number(item.discount).k = "none" => r[6] = Zero
                /\ \A c \in 4..8 : r[c].k = "float"

\* a finished invoice with a row whose line_total is the item's "0" and a
\* row whose line_total is computed, per-line VAT included
C5_Witness ==
    \E t \in DOMAIN task :
        /\ Finished(t)
        /\ \E n \in 1..Len(log) :
               /\ log[n].ev = "ws2" /\ log[n].idx > 0
               /\ InputItems(t)[log[n].idx] = Bolt
               /\ log[n].row[8] = Zero
        /\ \E n \in 1..Len(log) :
               /\ log[n].ev = "ws2" /\ log[n].idx > 0
               /\ InputItems(t)[log[n].idx] = Widget
               /\ log[n].row[7] = Float(1, 0)
               /\ log[n].row[8] = Float(12, 0)

(***************************************************************************)
(* C6.  The VAT flag of every header row is "Yes" if and only if to_number *)
(* recovers a number greater than zero from the header's vat_amount; it is *)
(* "No" for null, for empty text, for the tokens null, none and nan, for   *)
(* unparseable text, for zero and for negative values.                     *)
(***************************************************************************)
NumberAtoms == Digits \cup {",", ".", "-", "+", " "}

ListedAsAbsent(v) ==
    \/ v.k = "null"
    \/ v.k = "str" /\ Strip(v.s) = <<>>
    \/ v.k = "str" /\ Strip(v.s) \in {<<"null">>, <<"NULL">>, <<"None">>, <<"none">>, <<"NaN">>, <<"nan">>}
    \/ v.k = "str" /\ \E i \in 1..Len(v.s) : v.s[i] \notin NumberAtoms
    \/ v.k = "str" /\ v.s \in {<<"0">>, <<"0", ".", "0", "0", "0">>, <<"-", "5">>}
    \/ v.k \in {"int", "jfloat"} /\ v.m <= 0

C6_VatClassification ==
    \A n \in 1..Len(log) :
        log[n].ev = "ws1" =>
            LET v == Decoded(log[n].inv).vat_amount
                flag == log[n].row[4]
            IN  /\ flag \in {JStr(<<"Yes">>), JStr(<<"No">>)}
                /\ flag = JStr(<<"Yes">>) <=> (to_number(v).k = "float" /\ to_number(v).m > 0)
                /\ ListedAsAbsent(v) => flag = JStr(<<"No">>)

\* a finished invoice whose vat_amount reads "0.000", flagged "No"
C6_Witness ==
    \E t \in DOMAIN task :
        /\ Finished(t)
        /\ task[t].o.data.vat_amount = JStr(<<"0", ".", "0", "0", "0">>)
        /\ \E n \in 1..Len(log) : log[n].ev = "ws1" /\ log[n].row[4] = JStr(<<"No">>)

IsCanonicalDate(s) ==
    /\ Len(s) = 10
    /\ \A i \in {1, 2, 3, 4, 6, 7, 9, 10} : s[i] \in Digits
    /\ s[5] = "/" /\ s[8] = "/"
    /\ ValidDate([y |-> DigitsValue(SubSeq(s, 1, 4)), m |-> DigitsValue(SubSeq(s, 6, 7)),
                  d |-> DigitsValue(SubSeq(s, 9, 10))])

C8_FieldNoiseDegradesGracefully ==
    \A t \in DOMAIN task :
        ~StructuralFailure(t) =>
            /\ task[t].pc # "reply_err"
            /\ ~Replied(t, "reply_err")
            /\ Finished(t) => Len(RowsOf(t, "ws1")) = 1 /\ Len(RowsOf(t, "ws2")) >= 1
            /\ \A n \in 1..Len(log) :
                   log[n].ev \in {"ws1", "ws2"} /\ log[n].inv = t =>
                       /\ log[n].row[1].k = "str" /\ IsCanonicalDate(log[n].row[1].s)
                       /\ (Decoded(t).date.k = "null" \/ Decoded(t).date = JStr(<<>>))
                              => log[n].row[1].s = strftime(Today)
            /\ \A n \in 1..Len(log) :
                   log[n].ev = "ws1" /\ log[n].inv = t =>
                       /\ log[n].row[5].s \in allowed
                       /\ Decoded(t).sub_category.k = "null" => log[n].row[5].s = <<"Other">>

(***************************************************************************)
(* C9.  The items summary of a header row has one line for exactly the     *)
(* entries of "items" that are key-value records with a non-empty trimmed  *)
(* name, in input order, and is UNREADABLE_ITEMS when there is none; once  *)
(* the handler has finished, the summary is UNREADABLE_ITEMS if and only   *)
(* if the detail worksheet received the sentinel row of the invoice.       *)
(***************************************************************************)
LinesOfNamed(items) ==
    [n \in 1..Len(NamedIndices(items)) |->
         Join(Parts(items[NamedIndices(items)[n]]), <<" ", "|", " ">>)]

C9_SummaryAgreesWithDetailRows ==
    \A h \in 1..Len(log) :
        log[h].ev = "ws1" =>
            LET t == log[h].inv
                summary == log[h].row[6].s
            IN  /\ summary = IF NamedIndices(InputItems(t)) = <<>> THEN <<"UNREADABLE_ITEMS">>
                             ELSE Join(LinesOfNamed(InputItems(t)), <<"\n">>)
                /\ Finished(t) =>
                       (summary = <<"UNREADABLE_ITEMS">>
                            <=> \E n \in 1..Len(log) : log[n].inv = t /\ IsSentinel(log[n]))

(***************************************************************************)
(* C10.  With photos handled as tasks of one event loop, the handler does  *)
(* not give up the loop between the header append and the last detail      *)
(* append of an invoice: the appends of one invoice are contiguous among   *)
(* all appends and in each worksheet, the header row of an invoice comes   *)
(* before its detail rows, and the success reply comes after its last      *)
(* append.                                                                 *)
(***************************************************************************)
Contiguous(s) ==
    \A i, j, k \in 1..Len(s) : i < j /\ j < k /\ s[i].inv = s[k].inv => s[j].inv = s[i].inv

C10_AppendsNotInterleaved ==
    /\ Contiguous(Appends)
    /\ Contiguous(Rows("ws1"))
    /\ Contiguous(Rows("ws2"))
    /\ \A t \in DOMAIN task : task[t].pc \in {"items", "sentinel"} => running = t
    /\ \A n \in 1..Len(log) :
           log[n].ev = "ws2" => \E h \in 1..(n - 1) : log[h].ev = "ws1" /\ log[h].inv = log[n].inv
    /\ \A n \in 1..Len(log) :
           log[n].ev = "reply_ok" =>
               /\ \E h \in 1..(n - 1) : log[h].ev = "ws2" /\ log[h].inv = log[n].inv
               /\ \A m \in (n + 1)..Len(log) :
                      log[m].inv = log[n].inv => log[m].ev \notin {"ws1", "ws2"}

\* two invoices of two detail rows each, the second handler started before
\* the first had appended, both finished with the success reply
C10_Witness ==
    /\ Cardinality(DOMAIN task) >= 2
    /\ \A t \in {1, 2} : Len(RowsOf(t, "ws2")) = 2 /\ Replied(t, "reply_ok")
    /\ \E a, b \in 1..Len(log) :
           a < b /\ log[a].ev = "reply_ok" /\ log[b].ev = "ws1" /\ log[a].inv # log[b].inv

=============================================================================
